---- MODULE Spec2Model ----
(***************************************************************************)
(* A model of the go-imap server engine: the per-connection read /         *)
(* dispatch / respond loop (server/server.go), the Selected-state command  *)
(* handlers (CHECK, CLOSE, EXPUNGE, SEARCH, FETCH, STORE, COPY, UID), the  *)
(* helper writer goroutines of the streaming handlers, and the update      *)
(* fan-out goroutine (Server.listenUpdates).                               *)
(*                                                                         *)
(* One goroutine is one process of the model; an unbuffered Go channel is  *)
(* a rendezvous between the sending and the receiving process; a panic     *)
(* that nothing recovers ends the whole program (crashed).                 *)
(***************************************************************************)
EXTENDS Naturals, Sequences, FiniteSets, TLC

----------------------------------------------------------------------------
(* Bounds of the model *)

\* messages one ListMessages call may stream
MaxMsgs == 2
\* highest sequence number SearchMessages may return
MaxSeq == 2
\* longest list SearchMessages may return
MaxFound == 2
\* writer goroutines of one connection that may be alive at once
MaxHelpers == 1
\* updates the backend publishes in one run
MaxUpdates == 1
\* longest item list of the item-list probe
MaxItems == 3
\* RegisterCapability calls in one run
MaxRegs == 3
\* updates the backend publishes in one run of the fan-out on its own
MaxFanUpdates == 2
\* connections accepted at about the same time
MaxTasks == 2
\* the longest buffer handed to ExtractPartial
MaxBuf == 3
\* the largest offset and the largest length of a partial
MaxPartial == 4

----------------------------------------------------------------------------
(* Values *)

Conns == {1}
Nil == "nil"
NoErr == ""

Tags == {"a1", "a2"}
Usernames == {"u1"}
MailboxNames == {"INBOX"}

\* common.ConnState
NotAuthenticatedState == "NotAuthenticated"
AuthenticatedState == "Authenticated"
SelectedState == "Selected"
LogoutState == "Logout"

ErrNoMailboxSelected == "No mailbox selected"
ErrMailboxReadOnly == "Mailbox opened in read-only mode"
ErrUnknownCommand == "Unknown command"
ErrUidUnsupported == "Command unsupported with UID"
ErrUnsupportedStore == "Unsupported STORE operation"
ErrFlagsNotList == "Flags must be a list"
ErrIdentities == "Identities not supported"
ErrParse == "parse error"
ErrBackend == "backend error"
ErrNotAuthenticated == "Not authenticated"
\* what conn.ReadLine may return instead of a line
ErrEOF == "EOF"
ErrFraming == "framing error"
ErrTransport == "transport error"
ReadErrors == {ErrEOF, ErrFraming, ErrTransport}
ErrAlreadyAuthenticated == "Already authenticated"

\* the commands NewServer registers (those the model issues)
Registered ==
    {"NOOP", "LOGOUT", "LOGIN", "AUTHENTICATE", "SELECT", "EXAMINE",
     "CHECK", "CLOSE", "EXPUNGE", "SEARCH", "FETCH", "STORE", "COPY", "UID"}

\* the handlers that implement UidHandler
UidHandlers == {"SEARCH", "FETCH", "STORE", "COPY"}

ItemNames == {"FLAGS", "ENVELOPE"}
FetchItemLists ==
    {<<"FLAGS">>, <<"UID", "FLAGS">>, <<"FLAGS", "UID">>}

\* common.SilentOp and the common.FlagsOp values; a STORE item is the list of
\* its parts, so that a suffix is a last element
SilentOp == ".SILENT"
SetFlags == <<"FLAGS">>
AddFlags == <<"+FLAGS">>
RemoveFlags == <<"-FLAGS">>

StoreItems == {<<"FLAGS">>, <<"+FLAGS", ".SILENT">>, <<"-FLAGS">>, <<"KEYWORDS">>}

\* one response on the wire: a status response (Tag "*" when untagged) or a
\* data response (FETCH, EXPUNGE, SEARCH, ...); By tells an unsolicited
\* update ("upd") from a command's own response ("cmd")
Resp(tag, type, info, num, items, by) ==
    [Tag |-> tag, Type |-> type, Info |-> info, Num |-> num, Items |-> items, By |-> by]

StatusResp(tag, type, info) == Resp(tag, type, info, 0, <<>>, "cmd")
DataResp(type, num, items) == Resp("*", type, "", num, items, "cmd")

StatusTypes == {"OK", "NO", "BAD", "BYE"}
IsTagged(r) == r.Tag # "*"

\* common.Command after cmd.Parse, with the outcome of the handler's own
\* Parse(arguments) (ArgsOk) and, for UID, the inner command
Command(tag, name, argsOk, inner, innerOk, items, item, isList) ==
    [Tag |-> tag, Name |-> name, ArgsOk |-> argsOk, Inner |-> inner,
     InnerArgsOk |-> innerOk, Items |-> items, Item |-> item, ValueIsList |-> isList,
     SeqSet |-> "", Identity |-> "", Username |-> ""]

\* the credentials a client sends in the PLAIN exchange of AUTHENTICATE
Identities == {"", "u1", "root"}
WithCredentials(cm, identity, username) ==
    [cm EXCEPT !.Identity = identity, !.Username = username]

\* the sequence set of a FETCH or STORE
SeqSets == {"1", "1:*"}
WithSeqSet(cm, set) == [cm EXCEPT !.SeqSet = set]

NoCmd == Command("", "", TRUE, "", TRUE, <<>>, <<>>, TRUE)

Plain(tag, name) == Command(tag, name, TRUE, "", TRUE, <<>>, <<>>, TRUE)

\* the command lines a client may send with tag t
LinesTagged(t) ==
    {Plain(t, n) : n \in (Registered \ {"UID", "FETCH", "STORE"}) \cup {"BOGUS"}}
    \cup {Command(t, "CHECK", FALSE, "", TRUE, <<>>, <<>>, TRUE)}
    \cup {Command(t, "FETCH", TRUE, "", TRUE, l, <<>>, TRUE) : l \in FetchItemLists}
    \cup {Command(t, "STORE", TRUE, "", TRUE, <<>>, i, TRUE) : i \in StoreItems}
    \cup {Command(t, "STORE", TRUE, "", TRUE, <<>>, <<"FLAGS">>, FALSE)}
    \cup {Command(t, "UID", TRUE, n, TRUE, <<>>, <<>>, TRUE) :
              n \in {"SEARCH", "COPY", "CHECK", "LOGOUT", "EXPUNGE", "BOGUS"}}
    \cup {Command(t, "UID", TRUE, "SEARCH", FALSE, <<>>, <<>>, TRUE)}
    \cup {Command(t, "UID", FALSE, "", TRUE, <<>>, <<>>, TRUE)}
    \cup {Command(t, "UID", TRUE, "FETCH", TRUE, l, <<>>, TRUE) : l \in FetchItemLists}
    \cup {Command(t, "UID", TRUE, "STORE", TRUE, <<>>, i, TRUE) :
              i \in {<<"FLAGS">>, <<"+FLAGS", ".SILENT">>}}

\* the command lines with tag t, FETCH and STORE with their sequence sets
LinesWithSets(t) ==
    {IF l.Name \in {"FETCH", "STORE"} \/ l.Inner \in {"FETCH", "STORE"}
     THEN WithSeqSet(l, "1:*") ELSE l : l \in LinesTagged(t)}
    \cup {WithSeqSet(l, "1") :
              l \in {k \in LinesTagged(t) :
                        (k.Name = "STORE" \/ k.Inner = "STORE")
                            /\ k.Item = <<"FLAGS">> /\ k.ValueIsList}}

\* the command lines a client may send: every command with the first tag, and
\* a few with the second
Lines ==
    {l \in LinesWithSets("a1") : l.Name # "AUTHENTICATE"}
    \cup {WithCredentials(Plain("a1", "AUTHENTICATE"), i, u) :
              i \in Identities, u \in Usernames}
    \cup {l \in LinesWithSets("a2") :
             \/ l.Name \in {"NOOP", "BOGUS", "SEARCH"}
             \/ l.Name = "UID" /\ l.Inner \in {"BOGUS", "CHECK"}
             \/ l.Name = "UID" /\ l.Inner = "FETCH" /\ l.Items = <<"FLAGS">>}

----------------------------------------------------------------------------
VARIABLES
    State,            \* conn.State
    User,             \* conn.User (Nil or a username)
    Mailbox,          \* conn.Mailbox (Nil or a mailbox name)
    MailboxReadOnly,  \* conn.MailboxReadOnly
    silent,           \* conn.silent
    locker,           \* conn.locker: "free" or the goroutine holding it
    wbuf,             \* conn.Writer: responses written and not yet flushed
    sock,             \* responses flushed to the socket since the last line was read
    pc,               \* where the connection's goroutine (handleConn) is
    cmd,              \* the command being handled
    todo,             \* responses the connection's goroutine is about to WriteRes, in order
    helpers,          \* the writer goroutines spawned by the streaming handlers
    pending,          \* sequence numbers EXPUNGE still has to send on its channel
    sent,             \* messages / numbers the current command handed to its writer
    calls,            \* backend methods the current command invoked, in order
    pre,              \* the connection's state when the current command was dispatched
    conns,            \* s.conns
    crashed,          \* an unrecovered panic ended the program
    hasUpdates,       \* the backend is an Updater (s.Updates # nil)
    upc,              \* where the fan-out goroutine (listenUpdates) is
    uidx,             \* index into s.conns of the fan-out's range loop
    upd,              \* the update being delivered
    nUpd,             \* updates published so far
    rerr,             \* the error conn.ReadLine returned when handleConn stopped reading
    probe,            \* inputs and results of the probes of the pure functions
    caps,             \* s.caps
    acc               \* the connection tasks of SpecAccept, about to register

vars == <<State, User, Mailbox, MailboxReadOnly, silent, locker, wbuf, sock, pc,
          cmd, todo, helpers, pending, sent, calls, pre, conns, crashed,
          hasUpdates, upc, uidx, upd, nUpd, rerr, probe, caps, acc>>

\* what the server engine leaves alone: the state of the other specifications
sideVars == <<probe, caps, acc>>

connVars == <<State, User, Mailbox, MailboxReadOnly, silent>>
updVars == <<upc, uidx, upd, nUpd>>

----------------------------------------------------------------------------
(* Small operators *)

Set1(f, c, v) == [f EXCEPT ![c] = v]

RECURSIVE SeqsUpTo(_, _)
SeqsUpTo(S, n) ==
    IF n = 0 THEN {<<>>}
    ELSE LET shorter == SeqsUpTo(S, n - 1)
         IN shorter \cup {Append(s, x) : s \in {t \in shorter : Len(t) = n - 1}, x \in S}

\* what SearchMessages may return: the sequence numbers of some messages, each
\* once, in any order (the backend interface fixes none)
SeqLists ==
    {s \in SeqsUpTo(1..MaxSeq, MaxFound) : \A i, j \in 1..Len(s) : i # j => s[i] # s[j]}

Hids == 1..MaxHelpers

IdleHelper == [pc |-> "idle", closed |-> FALSE, cur |-> FALSE, ch |-> <<>>, cap |-> 0]

\* a backend call record: the method, the mailbox it was invoked on, its uid
\* and items arguments, and the list it returned
Call(method, mbox, uid, items) ==
    [Method |-> method, Mbox |-> mbox, Uid |-> uid, Items |-> items, Ret |-> <<>>,
     SeqSet |-> ""]

\* the update the fan-out is delivering: its channel and filter, the slice the
\* range loop goes through, its number in the order of receipt, and the
\* connection whose silent STORE made the backend publish it (0: none)
NoUpd == [Kind |-> "", Username |-> "", Mailbox |-> "", Conns |-> <<>>, Seq |-> 0, EchoOf |-> 0]

NoPre == [Mailbox |-> Nil, ReadOnly |-> FALSE, State |-> NotAuthenticatedState]

NoProbe == [L |-> <<>>, Pos |-> 0, Phase |-> "off", OutL |-> <<>>, OutL2 |-> <<>>]

----------------------------------------------------------------------------
InitServer ==
    /\ State = [c \in Conns |-> NotAuthenticatedState]
    /\ User = [c \in Conns |-> Nil]
    /\ Mailbox = [c \in Conns |-> Nil]
    /\ MailboxReadOnly = [c \in Conns |-> FALSE]
    /\ silent = [c \in Conns |-> FALSE]
    /\ locker = [c \in Conns |-> "free"]
    /\ wbuf = [c \in Conns |-> <<>>]
    /\ sock = [c \in Conns |-> <<>>]
    /\ pc = [c \in Conns |-> "start"]
    /\ cmd = [c \in Conns |-> NoCmd]
    /\ todo = [c \in Conns |-> <<>>]
    /\ helpers = [c \in Conns |-> [i \in Hids |-> IdleHelper]]
    /\ pending = [c \in Conns |-> <<>>]
    /\ sent = [c \in Conns |-> 0]
    /\ calls = [c \in Conns |-> <<>>]
    /\ pre = [c \in Conns |-> NoPre]
    /\ conns = <<>>
    /\ crashed = FALSE
    /\ hasUpdates \in BOOLEAN
    /\ upc = "select"
    /\ uidx = 0
    /\ upd = NoUpd
    /\ nUpd = 0
    /\ rerr = [c \in Conns |-> NoErr]

Init == InitServer /\ probe = NoProbe /\ caps = <<>> /\ acc = <<>>

----------------------------------------------------------------------------
(* Conn.WriteRes as the connection's own goroutine runs it: lock, serialize,
   flush, unlock *)

WriteRes_Lock(c) ==
    /\ ~crashed
    /\ pc[c] = "write"
    /\ locker[c] = "free"
    /\ locker' = Set1(locker, c, "main")
    /\ pc' = Set1(pc, c, "flush")
    /\ UNCHANGED <<connVars, wbuf, sock, cmd, todo, helpers, pending, sent, calls, pre,
                   conns, crashed, hasUpdates, updVars, rerr, sideVars>>

\* after the last response of a command the loop of handleConn goes round
WriteRes_Flush(c) ==
    /\ ~crashed
    /\ pc[c] = "flush"
    /\ sock' = Set1(sock, c, sock[c] \o wbuf[c] \o <<Head(todo[c])>>)
    /\ wbuf' = Set1(wbuf, c, <<>>)
    /\ locker' = Set1(locker, c, "free")
    /\ todo' = Set1(todo, c, Tail(todo[c]))
    /\ pc' = Set1(pc, c, IF Len(todo[c]) > 1 THEN "write" ELSE "loop")
    /\ UNCHANGED <<connVars, cmd, helpers, pending, sent, calls, pre,
                   conns, crashed, hasUpdates, updVars, rerr, sideVars>>

----------------------------------------------------------------------------
(* Server.handleConn and Server.handleCommand *)

\* the status response handleCommand builds from the handler's result
handleCommand_status(cm, err) ==
    IF err = NoErr
    THEN StatusResp(cm.Tag, "OK", cm.Name \o " completed")
    ELSE StatusResp(cm.Tag, "NO", err)

\* the status response handleConn builds when handleCommand returns an error
\* (getCommandHandler failed)
handleConn_bad(cm, err) == StatusResp(cm.Tag, "BAD", err)

\* the handler wrote `untagged` with conn.WriteRes and returned err
Reply(c, untagged, err) ==
    /\ todo' = Set1(todo, c, untagged \o <<handleCommand_status(cmd[c], err)>>)
    /\ pc' = Set1(pc, c, "write")

handleConn_Start(c) ==
    /\ ~crashed
    /\ pc[c] = "start"
    /\ conns' = Append(conns, c)
    /\ State' = Set1(State, c, NotAuthenticatedState)
    /\ todo' = Set1(todo, c, <<StatusResp("*", "OK", "IMAP4rev1 Service Ready")>>)
    /\ pc' = Set1(pc, c, "write")
    /\ UNCHANGED <<User, Mailbox, MailboxReadOnly, silent, locker, wbuf, sock, cmd, helpers,
                   pending, sent, calls, pre, crashed, hasUpdates, updVars, rerr, sideVars>>

\* the loop without the test of conn.State
handleConn_Loop_Always(c) ==
    /\ ~crashed
    /\ pc[c] = "loop"
    /\ pc' = Set1(pc, c, "read")
    /\ cmd' = Set1(cmd, c, NoCmd)
    /\ sock' = Set1(sock, c, <<>>)
    /\ calls' = Set1(calls, c, <<>>)
    /\ sent' = Set1(sent, c, 0)
    /\ pre' = Set1(pre, c, NoPre)
    /\ UNCHANGED <<connVars, locker, wbuf, todo, helpers, pending, conns, crashed,
                   hasUpdates, updVars, rerr, sideVars>>

\* the top of the loop of handleConn: it returns (and the deferred conn.Close
\* runs) when the state is Logout, and else waits for the next line; what the
\* model remembers of the command before is forgotten here
handleConn_Loop(c) ==
    /\ ~crashed
    /\ pc[c] = "loop"
    /\ pc' = Set1(pc, c, IF State[c] = LogoutState THEN "closed" ELSE "read")
    /\ cmd' = Set1(cmd, c, NoCmd)
    /\ sock' = Set1(sock, c, <<>>)
    /\ calls' = Set1(calls, c, <<>>)
    /\ sent' = Set1(sent, c, 0)
    /\ pre' = Set1(pre, c, NoPre)
    /\ UNCHANGED <<connVars, locker, wbuf, todo, helpers, pending, conns, crashed,
                   hasUpdates, updVars, rerr, sideVars>>

\* conn.ReadLine returned io.EOF or another error (the line is malformed, or
\* the transport failed): handleConn returns, nil or the error, and the deferred
\* conn.Close runs
handleConn_ReadFail(c) ==
    /\ ~crashed
    /\ pc[c] = "read"
    /\ \E err \in ReadErrors : rerr' = Set1(rerr, c, err)
    /\ pc' = Set1(pc, c, "closed")
    /\ UNCHANGED <<connVars, locker, wbuf, sock, cmd, todo, helpers, pending, sent, calls,
                   pre, conns, crashed, hasUpdates, updVars, sideVars>>

\* a line was read and cmd.Parse(fields) failed
handleConn_ParseFail(c) ==
    /\ ~crashed
    /\ pc[c] = "read"
    /\ todo' = Set1(todo, c, <<StatusResp("*", "BAD", ErrParse)>>)
    /\ pc' = Set1(pc, c, "write")
    /\ UNCHANGED <<connVars, locker, wbuf, sock, cmd, helpers, pending, sent, calls, pre,
                   conns, crashed, hasUpdates, updVars, rerr, sideVars>>

\* a line was read and parsed into a command
handleConn_ReadLine(c) ==
    /\ ~crashed
    /\ pc[c] = "read"
    /\ \E i \in Hids : helpers[c][i].pc = "idle"
    /\ \E line \in Lines : cmd' = Set1(cmd, c, line)
    /\ pre' = Set1(pre, c, [Mailbox |-> Mailbox[c], ReadOnly |-> MailboxReadOnly[c],
                            State |-> State[c]])
    /\ pc' = Set1(pc, c, "dispatch")
    /\ UNCHANGED <<connVars, locker, wbuf, sock, todo, helpers, pending, sent, calls, conns,
                   crashed, hasUpdates, updVars, rerr, sideVars>>

\* Server.getCommandHandler: "" when a handler was made and parsed its arguments
getCommandHandler(name, argsOk) ==
    IF name \notin Registered THEN ErrUnknownCommand
    ELSE IF ~argsOk THEN ErrParse
    ELSE NoErr

\* handleCommand returned the error of getCommandHandler
handleCommand_NoHandler(c) ==
    /\ ~crashed
    /\ pc[c] = "dispatch"
    /\ getCommandHandler(cmd[c].Name, cmd[c].ArgsOk) # NoErr
    /\ todo' = Set1(todo, c,
                    <<handleConn_bad(cmd[c], getCommandHandler(cmd[c].Name, cmd[c].ArgsOk))>>)
    /\ pc' = Set1(pc, c, "write")
    /\ UNCHANGED <<connVars, locker, wbuf, sock, cmd, helpers, pending, sent, calls, pre,
                   conns, crashed, hasUpdates, updVars, rerr, sideVars>>

\* the handler of command `name` is about to run on c
Dispatched(c, names) ==
    /\ ~crashed
    /\ pc[c] = "dispatch"
    /\ cmd[c].Name \in names
    /\ getCommandHandler(cmd[c].Name, cmd[c].ArgsOk) = NoErr

\* what no handler changes when it is dispatched
HandlerFrame == UNCHANGED <<locker, wbuf, sock, cmd, pre, conns, hasUpdates, updVars, rerr, sideVars>>

\* handleCommand runs the handler of `name`: directly (uid = FALSE), or through
\* Uid.Handle, which makes the inner command's handler and calls its UidHandle
Runs(c, name, uid) ==
    IF uid
    THEN /\ Dispatched(c, {"UID"})
         /\ cmd[c].Inner = name
         /\ getCommandHandler(cmd[c].Inner, cmd[c].InnerArgsOk) = NoErr
         /\ name \in UidHandlers
    ELSE Dispatched(c, {name})

\* Uid.Handle calling the Handle of an inner handler that has no UidHandle
Uid_Handle_Fail_RunsInner(c) ==
    /\ Dispatched(c, {"UID"})
    /\ LET err == getCommandHandler(cmd[c].Inner, cmd[c].InnerArgsOk)
       IN \/ /\ err # NoErr
             /\ Reply(c, <<>>, err)
             /\ UNCHANGED calls
          \/ /\ err = NoErr
             /\ cmd[c].Inner \notin UidHandlers
             /\ calls' = Set1(calls, c, Append(calls[c], Call(cmd[c].Inner, Mailbox[c], FALSE, <<>>)))
             /\ Reply(c, <<>>, NoErr)
    /\ UNCHANGED <<connVars, helpers, pending, sent, crashed>>
    /\ HandlerFrame

\* Uid.Handle returns an error without reaching an inner handler
Uid_Handle_Fail(c) ==
    /\ Dispatched(c, {"UID"})
    /\ LET err == getCommandHandler(cmd[c].Inner, cmd[c].InnerArgsOk)
       IN \/ /\ err # NoErr
             /\ Reply(c, <<>>, err)
          \/ /\ err = NoErr
             /\ cmd[c].Inner \notin UidHandlers
             /\ Reply(c, <<>>, ErrUidUnsupported)
    /\ UNCHANGED <<connVars, helpers, pending, sent, calls, crashed>>
    /\ HandlerFrame

----------------------------------------------------------------------------
(* Handlers of the commands that need no mailbox *)

Noop_Handle(c) ==
    /\ Dispatched(c, {"NOOP"})
    /\ Reply(c, <<>>, NoErr)
    /\ UNCHANGED <<connVars, helpers, pending, sent, calls, crashed>>
    /\ HandlerFrame

Logout_Handle(c) ==
    /\ Dispatched(c, {"LOGOUT"})
    /\ State' = Set1(State, c, LogoutState)
    /\ Mailbox' = Set1(Mailbox, c, Nil)
    /\ MailboxReadOnly' = Set1(MailboxReadOnly, c, FALSE)
    /\ Reply(c, <<StatusResp("*", "BYE", "Closing connection")>>, NoErr)
    /\ UNCHANGED <<User, silent, helpers, pending, sent, calls, crashed>>
    /\ HandlerFrame

Login_Handle(c) ==
    /\ Dispatched(c, {"LOGIN"})
    /\ IF State[c] # NotAuthenticatedState
       THEN /\ Reply(c, <<>>, ErrAlreadyAuthenticated)
            /\ UNCHANGED <<State, User, calls>>
       ELSE /\ calls' = Set1(calls, c, Append(calls[c], Call("Login", Nil, FALSE, <<>>)))
            /\ \/ /\ Reply(c, <<>>, ErrBackend)
                  /\ UNCHANGED <<State, User>>
               \/ \E u \in Usernames :
                     /\ State' = Set1(State, c, AuthenticatedState)
                     /\ User' = Set1(User, c, u)
                     /\ Reply(c, <<>>, NoErr)
    /\ UNCHANGED <<Mailbox, MailboxReadOnly, silent, helpers, pending, sent, crashed>>
    /\ HandlerFrame

\* the check without the test of the identity
PlainCheck_AnyIdentity(c, identity, username, loginOk) ==
    /\ calls' = Set1(calls, c, Append(calls[c], Call("Login", Nil, FALSE, <<>>)))
    /\ IF ~loginOk
       THEN /\ Reply(c, <<>>, ErrBackend)
            /\ UNCHANGED <<State, User>>
       ELSE /\ State' = Set1(State, c, AuthenticatedState)
            /\ User' = Set1(User, c, username)
            /\ Reply(c, <<>>, NoErr)

\* the credential check NewServer gives the PLAIN mechanism; loginOk is the
\* outcome of bkd.Login
PlainCheck(c, identity, username, loginOk) ==
    IF identity # "" /\ identity # username
    THEN /\ Reply(c, <<>>, ErrIdentities)
         /\ UNCHANGED <<State, User, calls>>
    ELSE /\ calls' = Set1(calls, c, Append(calls[c], Call("Login", Nil, FALSE, <<>>)))
         /\ IF ~loginOk
            THEN /\ Reply(c, <<>>, ErrBackend)
                 /\ UNCHANGED <<State, User>>
            ELSE /\ State' = Set1(State, c, AuthenticatedState)
                 /\ User' = Set1(User, c, username)
                 /\ Reply(c, <<>>, NoErr)

Authenticate_Handle(c) ==
    /\ Dispatched(c, {"AUTHENTICATE"})
    /\ IF State[c] # NotAuthenticatedState
       THEN /\ Reply(c, <<>>, ErrAlreadyAuthenticated)
            /\ UNCHANGED <<State, User, calls>>
       ELSE \E loginOk \in BOOLEAN :
               PlainCheck(c, cmd[c].Identity, cmd[c].Username, loginOk)
    /\ UNCHANGED <<Mailbox, MailboxReadOnly, silent, helpers, pending, sent, crashed>>
    /\ HandlerFrame

\* SELECT and EXAMINE (the Select handler with ReadOnly set)
Select_Handle(c) ==
    /\ Dispatched(c, {"SELECT", "EXAMINE"})
    /\ IF User[c] = Nil
       THEN /\ Reply(c, <<>>, ErrNotAuthenticated)
            /\ UNCHANGED <<State, Mailbox, MailboxReadOnly, calls>>
       ELSE /\ calls' = Set1(calls, c, Append(calls[c], Call("GetMailbox", Nil, FALSE, <<>>)))
            /\ \/ /\ State' = Set1(State, c, AuthenticatedState)
                  /\ Mailbox' = Set1(Mailbox, c, Nil)
                  /\ MailboxReadOnly' = Set1(MailboxReadOnly, c, FALSE)
                  /\ Reply(c, <<>>, ErrBackend)
               \/ \E m \in MailboxNames :
                     /\ State' = Set1(State, c, SelectedState)
                     /\ Mailbox' = Set1(Mailbox, c, m)
                     /\ MailboxReadOnly' = Set1(MailboxReadOnly, c, cmd[c].Name = "EXAMINE")
                     /\ Reply(c, <<DataResp("SELECT", 0, <<>>)>>, NoErr)
    /\ UNCHANGED <<User, silent, helpers, pending, sent, crashed>>
    /\ HandlerFrame

----------------------------------------------------------------------------
(* The writer goroutine of a streaming handler, `go func() { done <-
   conn.WriteRes(res) }()`, and the channel the handler feeds it through *)

\* a channel with room for every message of the stream
BufferedChanCap == MaxMsgs

\* make(chan *common.Message) in Fetch.handle and make(chan uint32) in
\* Expunge.Handle: unbuffered
FetchChanCap == 0
ExpungeChanCap == 0

HasSuffix(s, suffix) == Len(s) > 0 /\ s[Len(s)] = suffix
TrimSuffix(s, suffix) == IF HasSuffix(s, suffix) THEN SubSeq(s, 1, Len(s) - 1) ELSE s

\* the writer of the command being handled
CurHelper(c) == CHOOSE i \in Hids : helpers[c][i].cur

\* go func() { ... }: the goroutine takes the first free slot
Spawn(c, cap) ==
    LET i == CHOOSE j \in Hids :
                 /\ helpers[c][j].pc = "idle"
                 /\ \A k \in Hids : k < j => helpers[c][k].pc # "idle"
    IN helpers' = [helpers EXCEPT ![c][i] =
                      [pc |-> "lock", closed |-> FALSE, cur |-> TRUE, ch |-> <<>>, cap |-> cap]]

\* ch <- r: on an unbuffered channel the send completes when the writer, inside
\* res.WriteTo, receives r, and the writer then writes r to conn.Writer; on a
\* buffered channel it completes when the buffer has room
ChanSend(c, r) ==
    LET i == CurHelper(c)
        h == helpers[c][i]
    IN \/ /\ h.cap = 0
          /\ h.pc = "recv"
          /\ wbuf' = Set1(wbuf, c, Append(wbuf[c], r))
          /\ UNCHANGED helpers
       \/ /\ Len(h.ch) < h.cap
          /\ helpers' = [helpers EXCEPT ![c][i].ch = Append(@, r)]
          /\ UNCHANGED wbuf

\* close(ch)
ChanClose(c) == helpers' = [helpers EXCEPT ![c][CurHelper(c)].closed = TRUE]

\* conn.WriteRes(res) in the writer goroutine: take the lock
Helper_Lock(c, i) ==
    /\ ~crashed
    /\ helpers[c][i].pc = "lock"
    /\ locker[c] = "free"
    /\ locker' = Set1(locker, c, "helper")
    /\ helpers' = [helpers EXCEPT ![c][i].pc = "recv"]
    /\ UNCHANGED <<connVars, wbuf, sock, pc, cmd, todo, pending, sent, calls, pre, conns,
                   crashed, hasUpdates, updVars, rerr, sideVars>>

\* res.WriteTo finds the channel closed (after writing what the channel still
\* held): WriteRes flushes and unlocks, and the goroutine goes on to `done <-`
Helper_Finish(c, i) ==
    /\ ~crashed
    /\ helpers[c][i].pc = "recv"
    /\ helpers[c][i].closed
    /\ sock' = Set1(sock, c, sock[c] \o wbuf[c] \o helpers[c][i].ch)
    /\ wbuf' = Set1(wbuf, c, <<>>)
    /\ locker' = Set1(locker, c, "free")
    /\ helpers' = [helpers EXCEPT ![c][i].pc = "done", ![c][i].ch = <<>>]
    /\ UNCHANGED <<connVars, pc, cmd, todo, pending, sent, calls, pre, conns,
                   crashed, hasUpdates, updVars, rerr, sideVars>>

\* <-done in the handler meets `done <-` in the writer: the writer goroutine
\* ends and the handler returns what WriteRes returned
Handler_Done(c) ==
    /\ ~crashed
    /\ pc[c] \in {"fetch_done", "exp_done"}
    /\ helpers[c][CurHelper(c)].pc = "done"
    /\ helpers' = [helpers EXCEPT ![c][CurHelper(c)] = IdleHelper]
    /\ Reply(c, <<>>, NoErr)
    /\ UNCHANGED <<connVars, locker, wbuf, sock, cmd, pending, sent, calls, pre, conns,
                   crashed, hasUpdates, updVars, rerr, sideVars>>

----------------------------------------------------------------------------
(* Handlers of the Selected state *)

\* a backend method of the selected mailbox is called with a sequence set
InvokeOn(c, method, uid, seqSet, items) ==
    calls' = Set1(calls, c, Append(calls[c], [Call(method, Mailbox[c], uid, items)
                                                 EXCEPT !.SeqSet = seqSet]))

\* ... with cmd.SeqSet, for the commands that have one
Invoke(c, method, uid, items) == InvokeOn(c, method, uid, cmd[c].SeqSet, items)

\* CHECK without the read-only test
Check_Handle_NoReadOnly(c) ==
    /\ Dispatched(c, {"CHECK"})
    /\ IF Mailbox[c] = Nil
       THEN Reply(c, <<>>, ErrNoMailboxSelected) /\ UNCHANGED calls
       ELSE /\ Invoke(c, "Check", FALSE, <<>>)
            /\ \E err \in {NoErr, ErrBackend} : Reply(c, <<>>, err)
    /\ UNCHANGED <<connVars, helpers, pending, sent, crashed>>
    /\ HandlerFrame

Check_Handle(c) ==
    /\ Dispatched(c, {"CHECK"})
    /\ IF Mailbox[c] = Nil
       THEN Reply(c, <<>>, ErrNoMailboxSelected) /\ UNCHANGED calls
       ELSE IF MailboxReadOnly[c]
       THEN Reply(c, <<>>, ErrMailboxReadOnly) /\ UNCHANGED calls
       ELSE /\ Invoke(c, "Check", FALSE, <<>>)
            /\ \E err \in {NoErr, ErrBackend} : Reply(c, <<>>, err)
    /\ UNCHANGED <<connVars, helpers, pending, sent, crashed>>
    /\ HandlerFrame

\* conn.Mailbox is set to nil before conn.Mailbox.Expunge() is evaluated: the
\* call is made on the nil interface value and panics; nothing recovers
Close_Handle(c) ==
    /\ Dispatched(c, {"CLOSE"})
    /\ IF Mailbox[c] = Nil
       THEN /\ Reply(c, <<>>, ErrNoMailboxSelected)
            /\ UNCHANGED <<Mailbox, MailboxReadOnly, calls, crashed>>
       ELSE LET receiver == Nil   \* conn.Mailbox as line 53 reads it
            IN /\ Mailbox' = Set1(Mailbox, c, Nil)
               /\ MailboxReadOnly' = Set1(MailboxReadOnly, c, FALSE)
               /\ IF receiver = Nil
                  THEN /\ crashed' = TRUE
                       /\ pc' = Set1(pc, c, "panic")
                       /\ UNCHANGED <<calls, todo>>
                  ELSE /\ calls' = Set1(calls, c,
                                        Append(calls[c], Call("Expunge", receiver, FALSE, <<>>)))
                       /\ \E err \in {NoErr, ErrBackend} : Reply(c, <<>>, err)
                       /\ UNCHANGED crashed
    /\ UNCHANGED <<State, User, silent, helpers, pending, sent>>
    /\ HandlerFrame

\* the loop of Expunge.Handle sends seqnums[i] for i from len-1 down to 0:
\* the next number of what is left to send, and the rest
Expunge_next(p) == p[Len(p)]
Expunge_rest(p) == SubSeq(p, 1, Len(p) - 1)

Expunge_Handle(c) ==
    /\ Dispatched(c, {"EXPUNGE"})
    /\ IF Mailbox[c] = Nil
       THEN /\ Reply(c, <<>>, ErrNoMailboxSelected)
            /\ UNCHANGED <<calls, helpers, pending>>
       ELSE IF MailboxReadOnly[c]
       THEN /\ Reply(c, <<>>, ErrMailboxReadOnly)
            /\ UNCHANGED <<calls, helpers, pending>>
       ELSE IF ~hasUpdates
       THEN \/ /\ Invoke(c, "SearchMessages", FALSE, <<>>)
               /\ Reply(c, <<>>, ErrBackend)
               /\ UNCHANGED <<helpers, pending>>
            \/ \E seqnums \in SeqLists :
                  /\ calls' = Set1(calls, c, calls[c] \o
                        <<[Call("SearchMessages", Mailbox[c], FALSE, <<>>) EXCEPT !.Ret = seqnums],
                          Call("Expunge", Mailbox[c], FALSE, <<>>)>>)
                  /\ \/ /\ Reply(c, <<>>, ErrBackend)
                        /\ UNCHANGED <<helpers, pending>>
                     \/ /\ pending' = Set1(pending, c, seqnums)
                        /\ Spawn(c, ExpungeChanCap)
                        /\ pc' = Set1(pc, c, "exp_send")
                        /\ UNCHANGED todo
       ELSE /\ Invoke(c, "Expunge", FALSE, <<>>)
            /\ \E err \in {NoErr, ErrBackend} : Reply(c, <<>>, err)
            /\ UNCHANGED <<helpers, pending>>
    /\ UNCHANGED <<connVars, sent, crashed>>
    /\ HandlerFrame

\* ch <- seqnums[i]
Expunge_Send(c) ==
    /\ ~crashed
    /\ pc[c] = "exp_send"
    /\ pending[c] # <<>>
    /\ ChanSend(c, DataResp("EXPUNGE", Expunge_next(pending[c]), <<>>))
    /\ pending' = Set1(pending, c, Expunge_rest(pending[c]))
    /\ sent' = Set1(sent, c, sent[c] + 1)
    /\ UNCHANGED <<connVars, locker, sock, pc, cmd, todo, calls, pre, conns, crashed,
                   hasUpdates, updVars, rerr, sideVars>>

\* close(ch), then the handler waits on done
Expunge_Close(c) ==
    /\ ~crashed
    /\ pc[c] = "exp_send"
    /\ pending[c] = <<>>
    /\ ChanClose(c)
    /\ pc' = Set1(pc, c, "exp_done")
    /\ UNCHANGED <<connVars, locker, wbuf, sock, cmd, todo, pending, sent, calls, pre, conns,
                   crashed, hasUpdates, updVars, rerr, sideVars>>

Search_handle(c, uid) ==
    /\ IF Mailbox[c] = Nil
       THEN Reply(c, <<>>, ErrNoMailboxSelected) /\ UNCHANGED calls
       ELSE /\ Invoke(c, "SearchMessages", uid, <<>>)
            /\ \/ Reply(c, <<>>, ErrBackend)
               \/ Reply(c, <<DataResp("SEARCH", 0, <<>>)>>, NoErr)
    /\ UNCHANGED <<connVars, helpers, pending, sent, crashed>>
    /\ HandlerFrame

Search_Handle(c) == \E uid \in BOOLEAN : Runs(c, "SEARCH", uid) /\ Search_handle(c, uid)

Copy_handle(c, uid) ==
    /\ IF Mailbox[c] = Nil
       THEN Reply(c, <<>>, ErrNoMailboxSelected) /\ UNCHANGED calls
       ELSE /\ Invoke(c, "CopyMessages", uid, <<>>)
            /\ \E err \in {NoErr, ErrBackend} : Reply(c, <<>>, err)
    /\ UNCHANGED <<connVars, helpers, pending, sent, crashed>>
    /\ HandlerFrame

Copy_Handle(c) == \E uid \in BOOLEAN : Runs(c, "COPY", uid) /\ Copy_handle(c, uid)

\* Fetch.handle without the test for a selected mailbox
Fetch_handle_NoCheck(c, uid, seqSet, items) ==
    /\ Spawn(c, FetchChanCap)
    /\ InvokeOn(c, "ListMessages", uid, seqSet, items)
    /\ pc' = Set1(pc, c, "fetch_list")
    /\ UNCHANGED todo

\* Fetch.handle up to the call of ListMessages: it sets todo and pc, or
\* helpers, calls and pc
Fetch_handle(c, uid, seqSet, items) ==
    IF Mailbox[c] = Nil
    THEN /\ Reply(c, <<>>, ErrNoMailboxSelected)
         /\ UNCHANGED <<helpers, calls>>
    ELSE /\ Spawn(c, FetchChanCap)
         /\ InvokeOn(c, "ListMessages", uid, seqSet, items)
         /\ pc' = Set1(pc, c, "fetch_list")
         /\ UNCHANGED todo

\* UID appended whether or not it is among the items
Fetch_UidItems_Always(items) == Append(items, "UID")

\* Fetch.UidHandle: append UID to the items unless it is among them
Fetch_UidItems(items) ==
    IF \E i \in 1..Len(items) : items[i] = "UID" THEN items ELSE Append(items, "UID")

Fetch_Handle(c) ==
    /\ \E uid \in BOOLEAN :
          /\ Runs(c, "FETCH", uid)
          /\ Fetch_handle(c, uid, cmd[c].SeqSet,
                          IF uid THEN Fetch_UidItems(cmd[c].Items) ELSE cmd[c].Items)
    /\ UNCHANGED <<connVars, pending, sent, crashed>>
    /\ HandlerFrame

\* the items ListMessages was called with by the command being handled
ListedItems(c) == calls[c][Len(calls[c])].Items
ListedUid(c) == calls[c][Len(calls[c])].Uid

\* the FETCH response of message n, which the backend filled with `items`:
\* the items appear in the order of the list
FetchResp(n, items) == DataResp("FETCH", n, items)

\* the backend, inside ListMessages, sends one more message on the channel
ListMessages_Send(c) ==
    /\ ~crashed
    /\ pc[c] = "fetch_list"
    /\ sent[c] < MaxMsgs
    /\ ChanSend(c, FetchResp(sent[c] + 1, ListedItems(c)))
    /\ sent' = Set1(sent, c, sent[c] + 1)
    /\ UNCHANGED <<connVars, locker, sock, pc, cmd, todo, pending, calls, pre, conns, crashed,
                   hasUpdates, updVars, rerr, sideVars>>

\* ListMessages returns nil, having closed the channel: the handler waits on done
ListMessages_Return(c) ==
    /\ ~crashed
    /\ pc[c] = "fetch_list"
    /\ ChanClose(c)
    /\ pc' = Set1(pc, c, "fetch_done")
    /\ UNCHANGED <<connVars, locker, wbuf, sock, cmd, todo, pending, sent, calls, pre, conns,
                   crashed, hasUpdates, updVars, rerr, sideVars>>

\* ListMessages returns an error, with the channel closed or left open: the
\* handler returns the error at once and the writer goroutine is on its own
ListMessages_Fail(c) ==
    /\ ~crashed
    /\ pc[c] = "fetch_list"
    /\ \E closes \in BOOLEAN :
          helpers' = [helpers EXCEPT ![c][CurHelper(c)].closed = closes,
                                     ![c][CurHelper(c)].cur = FALSE]
    /\ Reply(c, <<>>, ErrBackend)
    /\ UNCHANGED <<connVars, locker, wbuf, sock, cmd, pending, sent, calls, pre, conns,
                   crashed, hasUpdates, updVars, rerr, sideVars>>

\* Store.handle up to the call of UpdateMessagesFlags; common.ParseStringList
\* may fail on the flags
Store_handle(c, uid) ==
    /\ IF Mailbox[c] = Nil
       THEN Reply(c, <<>>, ErrNoMailboxSelected) /\ UNCHANGED <<silent, calls>>
       ELSE IF MailboxReadOnly[c]
       THEN Reply(c, <<>>, ErrMailboxReadOnly) /\ UNCHANGED <<silent, calls>>
       ELSE LET isSilent == HasSuffix(cmd[c].Item, SilentOp)
                item == TrimSuffix(cmd[c].Item, SilentOp)
            IN IF item # SetFlags /\ item # AddFlags /\ item # RemoveFlags
               THEN Reply(c, <<>>, ErrUnsupportedStore) /\ UNCHANGED <<silent, calls>>
               ELSE IF ~cmd[c].ValueIsList
               THEN Reply(c, <<>>, ErrFlagsNotList) /\ UNCHANGED <<silent, calls>>
               ELSE \/ Reply(c, <<>>, ErrParse) /\ UNCHANGED <<silent, calls>>
                    \/ /\ silent' = Set1(silent, c, isSilent)
                       /\ Invoke(c, "UpdateMessagesFlags", uid, <<>>)
                       /\ pc' = Set1(pc, c, "store_call")
                       /\ UNCHANGED todo
    /\ UNCHANGED <<State, User, Mailbox, MailboxReadOnly, helpers, pending, sent, crashed>>
    /\ HandlerFrame

Store_Handle(c) == \E uid \in BOOLEAN : Runs(c, "STORE", uid) /\ Store_handle(c, uid)

\* the FETCH run whether or not the STORE is silent
Store_Return_AlwaysFetch(c) ==
    /\ ~crashed
    /\ pc[c] = "store_call"
    /\ silent' = Set1(silent, c, FALSE)
    /\ LET uid == cmd[c].Name = "UID"
       IN \/ /\ Reply(c, <<>>, ErrBackend)
             /\ UNCHANGED <<helpers, calls>>
          \/ IF ~hasUpdates
             THEN Fetch_handle(c, uid, cmd[c].SeqSet,
                               IF uid THEN <<"FLAGS", "UID">> ELSE <<"FLAGS">>)
             ELSE /\ Reply(c, <<>>, NoErr)
                  /\ UNCHANGED <<helpers, calls>>
    /\ UNCHANGED <<State, User, Mailbox, MailboxReadOnly, pending, sent, crashed>>
    /\ HandlerFrame

\* UpdateMessagesFlags returns: conn.silent is cleared, and a STORE that is not
\* silent, on a backend without updates, runs a FETCH of FLAGS itself
Store_Return(c) ==
    /\ ~crashed
    /\ pc[c] = "store_call"
    /\ silent' = Set1(silent, c, FALSE)
    /\ LET uid == cmd[c].Name = "UID"
           isSilent == HasSuffix(cmd[c].Item, SilentOp)
       IN \/ /\ Reply(c, <<>>, ErrBackend)
             /\ UNCHANGED <<helpers, calls>>
          \/ IF ~hasUpdates /\ ~isSilent
             THEN Fetch_handle(c, uid, cmd[c].SeqSet,
                               IF uid THEN <<"FLAGS", "UID">> ELSE <<"FLAGS">>)
             ELSE /\ Reply(c, <<>>, NoErr)
                  /\ UNCHANGED <<helpers, calls>>
    /\ UNCHANGED <<State, User, Mailbox, MailboxReadOnly, pending, sent, crashed>>
    /\ HandlerFrame

----------------------------------------------------------------------------
(* Server.listenUpdates: the fan-out goroutine *)

\* the four channels of backend.Updates
UpdKinds == {"status", "mailbox", "message", "expunge"}

\* the response listenUpdates builds for an update of each channel
UpdResp(u) ==
    Resp("*",
         CASE u.Kind = "status" -> "OK"
           [] u.Kind = "mailbox" -> "SELECT"
           [] u.Kind = "message" -> "FETCH"
           [] OTHER -> "EXPUNGE",
         "", u.Seq, <<>>, "upd")

\* the range loop without the test of conn.silent
UpdSkips_NoSilent(u, c) ==
    \/ u.Username # "" /\ (User[c] = Nil \/ User[c] # u.Username)
    \/ u.Mailbox # "" /\ (Mailbox[c] = Nil \/ Mailbox[c] # u.Mailbox)

\* the three `continue` conditions of the range loop
UpdSkips(u, c) ==
    \/ u.Username # "" /\ (User[c] = Nil \/ User[c] # u.Username)
    \/ u.Mailbox # "" /\ (Mailbox[c] = Nil \/ Mailbox[c] # u.Mailbox)
    \/ silent[c] /\ UpdResp(u).Type = "FETCH"

\* the loop goes to its next connection, or back to the select when the slice
\* it ranges over (evaluated once, when the loop began) is exhausted
UpdAdvance ==
    IF uidx + 1 > Len(upd.Conns)
    THEN upc' = "select" /\ uidx' = 0 /\ upd' = NoUpd
    ELSE upc' = "range" /\ uidx' = uidx + 1 /\ UNCHANGED upd

\* the connections inside the UpdateMessagesFlags call of a silent STORE: the
\* backend publishes the message update of the mutation during the call
SilentStores == {c \in Conns : pc[c] = "store_call" /\ silent[c]}

\* an update arrives on one of the channels and is formatted; the backend
\* publishes at most `max` updates
listenUpdates_ReceiveUpTo(max) ==
    /\ ~crashed
    /\ hasUpdates
    /\ upc = "select"
    /\ nUpd < max
    /\ nUpd' = nUpd + 1
    /\ \E k \in UpdKinds, u \in {""} \cup Usernames, m \in {""} \cup MailboxNames :
          \E echo \in {0} \cup (IF k = "message" THEN SilentStores ELSE {}) :
             upd' = [Kind |-> k, Username |-> u, Mailbox |-> m, Conns |-> conns,
                     Seq |-> nUpd + 1, EchoOf |-> echo]
    /\ IF conns = <<>>
       THEN upc' = "select" /\ uidx' = 0
       ELSE upc' = "range" /\ uidx' = 1
    /\ UNCHANGED <<connVars, locker, wbuf, sock, pc, cmd, todo, helpers, pending, sent, calls,
                   pre, conns, crashed, hasUpdates, rerr, sideVars>>

listenUpdates_Receive == listenUpdates_ReceiveUpTo(MaxUpdates)

\* the filter of the loop body, for the connection at uidx
listenUpdates_Filter ==
    /\ ~crashed
    /\ upc = "range"
    /\ IF UpdSkips(upd, upd.Conns[uidx])
       THEN UpdAdvance
       ELSE upc' = "lock" /\ UNCHANGED <<uidx, upd>>
    /\ UNCHANGED <<connVars, locker, wbuf, sock, pc, cmd, todo, helpers, pending, sent, calls,
                   pre, conns, crashed, hasUpdates, nUpd, rerr, sideVars>>

\* the write made without waiting for the lock
listenUpdates_NoLock ==
    /\ ~crashed
    /\ upc = "lock"
    /\ locker' = Set1(locker, upd.Conns[uidx], "upd")
    /\ upc' = "write"
    /\ UNCHANGED <<connVars, wbuf, sock, pc, cmd, todo, helpers, pending, sent, calls,
                   pre, conns, crashed, hasUpdates, uidx, upd, nUpd, rerr, sideVars>>

\* conn.locker.Lock()
listenUpdates_Lock ==
    /\ ~crashed
    /\ upc = "lock"
    /\ locker[upd.Conns[uidx]] = "free"
    /\ locker' = Set1(locker, upd.Conns[uidx], "upd")
    /\ upc' = "write"
    /\ UNCHANGED <<connVars, wbuf, sock, pc, cmd, todo, helpers, pending, sent, calls,
                   pre, conns, crashed, hasUpdates, uidx, upd, nUpd, rerr, sideVars>>

\* the write handed to a goroutine of its own, so that it may land before the
\* write of an earlier update
listenUpdates_Write_Async ==
    /\ ~crashed
    /\ upc = "write"
    /\ LET c == upd.Conns[uidx]
       IN /\ \E i \in 0..Len(sock[c]) :
                sock' = Set1(sock, c, SubSeq(sock[c], 1, i) \o <<UpdResp(upd)>>
                                         \o SubSeq(sock[c], i + 1, Len(sock[c])) \o wbuf[c])
          /\ wbuf' = Set1(wbuf, c, <<>>)
          /\ locker' = Set1(locker, c, "free")
    /\ UpdAdvance
    /\ UNCHANGED <<connVars, pc, cmd, todo, helpers, pending, sent, calls,
                   pre, conns, crashed, hasUpdates, nUpd, rerr, sideVars>>

\* conn.Writer.Write(b.Bytes()); conn.Flush(); conn.locker.Unlock()
listenUpdates_Write ==
    /\ ~crashed
    /\ upc = "write"
    /\ LET c == upd.Conns[uidx]
       IN /\ sock' = Set1(sock, c, sock[c] \o wbuf[c] \o <<UpdResp(upd)>>)
          /\ wbuf' = Set1(wbuf, c, <<>>)
          /\ locker' = Set1(locker, c, "free")
    /\ UpdAdvance
    /\ UNCHANGED <<connVars, pc, cmd, todo, helpers, pending, sent, calls,
                   pre, conns, crashed, hasUpdates, nUpd, rerr, sideVars>>

----------------------------------------------------------------------------
Next ==
    \/ \E c \in Conns :
          \/ handleConn_Start(c)
          \/ handleConn_Loop(c)
          \/ handleConn_ReadFail(c)
          \/ handleConn_ParseFail(c)
          \/ handleConn_ReadLine(c)
          \/ handleCommand_NoHandler(c)
          \/ WriteRes_Lock(c)
          \/ WriteRes_Flush(c)
          \/ Uid_Handle_Fail(c)
          \/ Noop_Handle(c)
          \/ Logout_Handle(c)
          \/ Login_Handle(c)
          \/ Authenticate_Handle(c)
          \/ Select_Handle(c)
          \/ Check_Handle(c)
          \/ Close_Handle(c)
          \/ Expunge_Handle(c)
          \/ Expunge_Send(c)
          \/ Expunge_Close(c)
          \/ Search_Handle(c)
          \/ Copy_Handle(c)
          \/ Fetch_Handle(c)
          \/ ListMessages_Send(c)
          \/ ListMessages_Return(c)
          \/ ListMessages_Fail(c)
          \/ Store_Handle(c)
          \/ Store_Return(c)
          \/ Handler_Done(c)
          \/ \E i \in Hids : Helper_Lock(c, i) \/ Helper_Finish(c, i)
    \/ listenUpdates_Receive
    \/ listenUpdates_Filter
    \/ listenUpdates_Lock
    \/ listenUpdates_Write

Spec == Init /\ [][Next]_vars

----------------------------------------------------------------------------
(* What the properties below read off a state *)

\* everything written to the connection since the command began, flushed or not
Out(c) == sock[c] \o wbuf[c]

IsData(r) == r.By = "cmd" /\ r.Type \in {"FETCH", "EXPUNGE", "SEARCH"}
IsStreamed(r) == r.By = "cmd" /\ r.Type \in {"FETCH", "EXPUNGE"}
IsUpdate(r) == r.By = "upd"

TaggedIn(s) == SelectSeq(s, IsTagged)
DataIn(s) == SelectSeq(s, IsData)
StreamedIn(s) == SelectSeq(s, IsStreamed)

\* the handler of the command returned
Returned(c) == cmd[c] # NoCmd /\ pc[c] \in {"write", "flush", "loop"}
\* the handler of the command returned or panicked
Handled(c) == Returned(c) \/ (cmd[c] # NoCmd /\ pc[c] = "panic")
\* the command was answered: its last response is on the socket
Answered(c) == cmd[c] # NoCmd /\ pc[c] = "loop"

\* the tagged status of a command whose handler returned
Answer(c) ==
    IF pc[c] = "loop"
    THEN TaggedIn(sock[c])[Len(TaggedIn(sock[c]))]
    ELSE todo[c][Len(todo[c])]

\* the verb the command runs: the inner verb of a UID command
Verb(c) == IF cmd[c].Name = "UID" THEN cmd[c].Inner ELSE cmd[c].Name

\* the command reached the Handle / UidHandle of one of the verbs
Reaches(c, verbs) ==
    /\ getCommandHandler(cmd[c].Name, cmd[c].ArgsOk) = NoErr
    /\ Verb(c) \in verbs
    /\ cmd[c].Name = "UID" =>
          /\ getCommandHandler(cmd[c].Inner, cmd[c].InnerArgsOk) = NoErr
          /\ cmd[c].Inner \in UidHandlers

Methods(c) == {calls[c][i].Method : i \in 1..Len(calls[c])}

----------------------------------------------------------------------------
(* C1 *)

\* C1: in every reachable state the mailbox handle of a connection is non-nil
\* if and only if the connection's state is Selected.
C1_MailboxIffSelected ==
    \A c \in Conns : (Mailbox[c] # Nil) <=> (State[c] = SelectedState)

----------------------------------------------------------------------------
(* C4 *)

\* the command name is not registered or its arguments do not parse, at top
\* level or in the inner verb of UID
C4_BadExpected(c) ==
    \/ getCommandHandler(cmd[c].Name, cmd[c].ArgsOk) # NoErr
    \/ /\ cmd[c].Name = "UID"
       /\ getCommandHandler(cmd[c].Inner, cmd[c].InnerArgsOk) # NoErr

\* C4: every command line with tag T is answered by exactly one status response
\* with tag T: BAD when the name is unknown or the arguments do not parse (at
\* top level or in the inner verb of UID), and otherwise OK "<NAME> completed"
\* or NO.
C4_OneStatusPerCommand ==
    \A c \in Conns :
        Answered(c) =>
            /\ Len(TaggedIn(sock[c])) = 1
            /\ Answer(c).Tag = cmd[c].Tag
            /\ C4_BadExpected(c) => Answer(c).Type = "BAD"
            /\ ~C4_BadExpected(c) =>
                  /\ Answer(c).Type \in {"OK", "NO"}
                  /\ Answer(c).Type = "OK" => Answer(c).Info = cmd[c].Name \o " completed"

----------------------------------------------------------------------------
(* C5 *)

MailboxVerbs == {"CHECK", "CLOSE", "EXPUNGE", "SEARCH", "FETCH", "STORE", "COPY"}

\* C5: a CHECK, CLOSE, EXPUNGE, SEARCH, FETCH, STORE or COPY (or the UID variant
\* of SEARCH, FETCH, STORE or COPY) handled with no mailbox selected returns
\* "No mailbox selected" as a tagged NO, invokes no backend method, writes no
\* untagged response and spawns no writer goroutine.
C5_NoMailboxNoEffect ==
    \A c \in Conns :
        (Handled(c) /\ Reaches(c, MailboxVerbs) /\ pre[c].Mailbox = Nil) =>
            /\ Returned(c)
            /\ Answer(c) = StatusResp(cmd[c].Tag, "NO", ErrNoMailboxSelected)
            /\ calls[c] = <<>>
            /\ \A i \in 1..Len(Out(c)) : IsTagged(Out(c)[i]) \/ IsUpdate(Out(c)[i])
            /\ Len(todo[c]) <= 1
            /\ \A i \in Hids : ~helpers[c][i].cur
            /\ sent[c] = 0

C5_Witness ==
    \E c \in Conns :
        /\ Answered(c)
        /\ cmd[c].Name = "UID" /\ cmd[c].Inner = "FETCH"
        /\ pre[c].Mailbox = Nil
        /\ Answer(c).Info = ErrNoMailboxSelected

----------------------------------------------------------------------------
(* C6 *)

MutatingMethods == {"Check", "Expunge", "UpdateMessagesFlags"}
MutatingVerbs == {"CHECK", "EXPUNGE", "STORE"}

\* C6: while the selected mailbox is read-only no command invokes Check,
\* Expunge or UpdateMessagesFlags on it, and CHECK, EXPUNGE, STORE and UID STORE
\* are answered NO "Mailbox opened in read-only mode" without any backend call.
C6_ReadOnlyNeverMutated ==
    \A c \in Conns :
        (cmd[c] # NoCmd /\ pre[c].Mailbox # Nil /\ pre[c].ReadOnly) =>
            /\ Methods(c) \cap MutatingMethods = {}
            /\ (Handled(c) /\ Reaches(c, MutatingVerbs)) =>
                  /\ Returned(c)
                  /\ Answer(c) = StatusResp(cmd[c].Tag, "NO", ErrMailboxReadOnly)
                  /\ calls[c] = <<>>

C6_Witness ==
    \E c \in Conns :
        /\ Answered(c)
        /\ cmd[c].Name = "UID" /\ cmd[c].Inner = "STORE"
        /\ pre[c].Mailbox # Nil /\ pre[c].ReadOnly
        /\ Answer(c).Info = ErrMailboxReadOnly

----------------------------------------------------------------------------
(* C7 *)

\* C7: when CLOSE has been handled on a connection with a selected mailbox, the
\* backend Expunge was invoked on that mailbox, and the connection has no
\* mailbox handle, its read-only flag is false, its state is Authenticated and
\* no untagged EXPUNGE was written.
C7_CloseExpungesThenUnselects ==
    \A c \in Conns :
        (Handled(c) /\ cmd[c].Name = "CLOSE" /\ cmd[c].ArgsOk /\ pre[c].Mailbox # Nil) =>
            /\ \E i \in 1..Len(calls[c]) :
                  calls[c][i].Method = "Expunge" /\ calls[c][i].Mbox = pre[c].Mailbox
            /\ Mailbox[c] = Nil
            /\ ~MailboxReadOnly[c]
            /\ State[c] = AuthenticatedState
            /\ DataIn(Out(c)) = <<>>

----------------------------------------------------------------------------
(* C10 *)

\* C10: a successful UID command with tag T ends with the tagged status
\* T OK "UID <INNER> completed", written after all its untagged responses.
C10_UidCompletionText ==
    \A c \in Conns :
        (Answered(c) /\ cmd[c].Name = "UID" /\ Answer(c).Type = "OK") =>
            /\ Answer(c).Tag = cmd[c].Tag
            /\ Answer(c).Info = "UID " \o cmd[c].Inner \o " completed"
            /\ sock[c][Len(sock[c])] = Answer(c) \/ IsUpdate(sock[c][Len(sock[c])])

----------------------------------------------------------------------------
(* C2 *)

\* C2: every untagged response of a command (FETCH, EXPUNGE, SEARCH) is on the
\* socket, written and flushed, before the first byte of the command's tagged
\* status is written: when the connection's goroutine holds the lock to write
\* the status, and ever after, everything the handler handed to its writer is
\* flushed, and no untagged response of the command follows the status.
C2_UntaggedBeforeTagged ==
    \A c \in Conns :
        /\ \A i, j \in 1..Len(Out(c)) :
              (i < j /\ IsTagged(Out(c)[i])) => ~IsData(Out(c)[j])
        /\ (Returned(c) /\ pc[c] \in {"flush", "loop"} /\ Len(todo[c]) <= 1) =>
              /\ Len(StreamedIn(sock[c])) = sent[c]
              /\ StreamedIn(wbuf[c]) = <<>>
              /\ \A i \in Hids : helpers[c][i].ch = <<>>

\* a FETCH that streamed a message before the backend failed was answered NO,
\* after the FETCH response
C2_Witness ==
    \E c \in Conns :
        /\ Answered(c)
        /\ Verb(c) = "FETCH"
        /\ Answer(c) = StatusResp(cmd[c].Tag, "NO", ErrBackend)
        /\ sent[c] >= 1
        /\ Len(sock[c]) >= 2
        /\ sock[c][1].Type = "FETCH" /\ sock[c][1].By = "cmd"

----------------------------------------------------------------------------
(* C3 *)

\* the goroutines inside a write to connection c
Writers(c) ==
    (IF pc[c] = "flush" THEN {"main"} ELSE {})
    \cup {i \in Hids : helpers[c][i].pc = "recv"}
    \cup (IF upc = "write" /\ upd.Conns[uidx] = c THEN {"upd"} ELSE {})

\* C3: writes to one connection are mutually exclusive: at most one goroutine
\* (the connection's, a writer goroutine or the fan-out) is inside a write, it
\* holds the lock, nothing is left unflushed when the lock is free or when the
\* fan-out writes, and no update lies between two streamed responses of one
\* command.
C3_WritesSerialized ==
    \A c \in Conns :
        /\ Cardinality(Writers(c)) <= 1
        /\ (locker[c] = "free") <=> (Writers(c) = {})
        /\ locker[c] = "free" => wbuf[c] = <<>>
        /\ locker[c] = "upd" => wbuf[c] = <<>>
        /\ \A i, j, k \in 1..Len(Out(c)) :
              (i < j /\ j < k /\ IsStreamed(Out(c)[i]) /\ IsStreamed(Out(c)[k]))
                  => ~IsUpdate(Out(c)[j])

\* the fan-out waits for the lock that a writer goroutine holds in mid-stream
C3_Witness ==
    \E c \in Conns :
        /\ upc = "lock" /\ upd.Conns[uidx] = c
        /\ \E i \in Hids : helpers[c][i].pc = "recv"
        /\ locker[c] = "helper"
        /\ wbuf[c] # <<>>

----------------------------------------------------------------------------
(* C8 *)

Nums(s) == [i \in 1..Len(s) |-> s[i].Num]
StrictlyDescending(s) == \A i, j \in 1..Len(s) : i < j => s[i] > s[j]

\* the numbers of the untagged EXPUNGE responses of the command, in order
Emitted(c) == Nums(StreamedIn(Out(c)))
\* what the \Deleted search of the command returned
Found(c) == calls[c][1].Ret

\* an EXPUNGE on a backend without updates that made its search and its expunge
C8_Scope(c) ==
    /\ ~hasUpdates
    /\ cmd[c].Name = "EXPUNGE"
    /\ Len(calls[c]) = 2

\* C8: the numbers of the emitted EXPUNGE responses are strictly descending,
\* and once the command is answered OK they are those the search returned.
C8_StrictlyDescending ==
    \A c \in Conns :
        C8_Scope(c) =>
            /\ StrictlyDescending(Emitted(c))
            /\ (Answered(c) /\ Answer(c).Type = "OK") =>
                  {Emitted(c)[i] : i \in 1..Len(Emitted(c))} = {Found(c)[i] : i \in 1..Len(Found(c))}

----------------------------------------------------------------------------
(* C9: Fetch.UidHandle on an item list without UID and on the same list with
   UID inserted *)

InsertAt(l, pos, x) == SubSeq(l, 1, pos) \o <<x>> \o SubSeq(l, pos + 1, Len(l))
Count(l, x) == Cardinality({i \in 1..Len(l) : l[i] = x})
Elems(l) == {l[i] : i \in 1..Len(l)}

\* the item lists without UID
ProbeLists == SeqsUpTo(ItemNames, MaxItems)

InitItems ==
    /\ InitServer
    /\ \E l \in ProbeLists, p \in 0..MaxItems :
          /\ p <= Len(l)
          /\ probe = [L |-> l, Pos |-> p, Phase |-> "L", OutL |-> <<>>, OutL2 |-> <<>>]
    /\ caps = <<>>
    /\ acc = <<>>

serverVars == <<State, User, Mailbox, MailboxReadOnly, silent, locker, wbuf, sock, pc,
                cmd, todo, helpers, pending, sent, calls, pre, conns, crashed,
                hasUpdates, upc, uidx, upd, nUpd, rerr>>

\* UID FETCH with items L: the items UidHandle passes to handle, and so to
\* ListMessages
Probe_UidHandle_L ==
    /\ probe.Phase = "L"
    /\ probe' = [probe EXCEPT !.OutL = Fetch_UidItems(probe.L), !.Phase = "L2"]
    /\ UNCHANGED <<serverVars, caps, acc>>

\* UID FETCH with UID inserted into L at Pos
Probe_UidHandle_L2 ==
    /\ probe.Phase = "L2"
    /\ probe' = [probe EXCEPT !.OutL2 = Fetch_UidItems(InsertAt(probe.L, probe.Pos, "UID")),
                              !.Phase = "done"]
    /\ UNCHANGED <<serverVars, caps, acc>>

NextItems == Probe_UidHandle_L \/ Probe_UidHandle_L2

SpecItems == InitItems /\ [][NextItems]_vars

----------------------------------------------------------------------------
(* C11: Server.RegisterCapability and Server.getCaps *)

CapNames == {"STARTTLS", "AUTH=PLAIN"}

\* common.ConnState is a bit mask: a mask is the set of the states whose bit is
\* set, and a & b # 0 says the two sets meet
ConnStates == {NotAuthenticatedState, AuthenticatedState, SelectedState, LogoutState}
StateMasks == SUBSET {NotAuthenticatedState, AuthenticatedState, SelectedState}
BitAnd(a, b) == a \cap b
Zero == {}

\* the orders in which `range` may go through a map with the keys S
Orders(S) == {o \in [1..Cardinality(S) -> S] : \A i, j \in 1..Cardinality(S) : i # j => o[i] # o[j]}

\* s.caps[name] = state
RegisterCapability(m, name, state) ==
    [n \in DOMAIN m \cup {name} |-> IF n = name THEN state ELSE m[n]]

\* the test made with == in place of &
getCaps_Equal(m, order, currentState) ==
    LET Keep(n) == m[n] = currentState IN SelectSeq(order, Keep)

\* Server.getCaps, the range going through the map in `order`
getCaps(m, order, currentState) ==
    LET Keep(n) == BitAnd(currentState, m[n]) # Zero IN SelectSeq(order, Keep)

InitCaps ==
    /\ InitServer
    /\ caps = <<>>
    /\ acc = <<>>
    /\ probe = [Log |-> <<>>, Phase |-> "register", St |-> NotAuthenticatedState, Out |-> <<>>]

Server_RegisterCapability ==
    /\ probe.Phase = "register"
    /\ Len(probe.Log) < MaxRegs
    /\ \E name \in CapNames, state \in StateMasks :
          /\ caps' = RegisterCapability(caps, name, state)
          /\ probe' = [probe EXCEPT !.Log = Append(@, <<name, state>>)]
    /\ UNCHANGED <<serverVars, acc>>

Server_getCaps ==
    /\ probe.Phase = "register"
    /\ \E st \in ConnStates, order \in Orders(DOMAIN caps) :
          probe' = [probe EXCEPT !.Phase = "got", !.St = st, !.Out = getCaps(caps, order, {st})]
    /\ UNCHANGED <<serverVars, caps, acc>>

NextCaps == Server_RegisterCapability \/ Server_getCaps

SpecCaps == InitCaps /\ [][NextCaps]_vars

\* the names registered so far and the mask of the last registration of each
Registrations == {probe.Log[i][1] : i \in 1..Len(probe.Log)}
LastMask(n) ==
    LET last == CHOOSE i \in 1..Len(probe.Log) :
                    /\ probe.Log[i][1] = n
                    /\ \A j \in 1..Len(probe.Log) : probe.Log[j][1] = n => j <= i
    IN probe.Log[last][2]

\* C11: after any sequence of RegisterCapability calls each registered name has
\* one mask, the last one registered for it, and getCaps(state) returns exactly
\* the names whose mask meets the state, each once, whatever the order in which
\* the registry is gone through.
C11_CapsByState ==
    /\ DOMAIN caps = Registrations
    /\ \A n \in Registrations : caps[n] = LastMask(n)
    /\ probe.Phase = "got" =>
          /\ Elems(probe.Out) = {n \in Registrations : probe.St \in LastMask(n)}
          /\ Count(probe.Out, "STARTTLS") <= 1
          /\ Count(probe.Out, "AUTH=PLAIN") <= 1

\* a name registered twice, first for a mask that holds the state and last for
\* one that does not, is not returned, while another name is
C11_Witness ==
    /\ probe.Phase = "got"
    /\ Len(probe.Log) = 3
    /\ probe.Log[1][1] = probe.Log[3][1]
    /\ probe.St \in probe.Log[1][2]
    /\ probe.St \notin probe.Log[3][2]
    /\ Len(probe.Out) = 1

----------------------------------------------------------------------------
(* C12, C13: the fan-out on its own, delivering to several connections that
   wait for a command *)

FanConns == {1, 2}

\* what a connection may be: not authenticated, authenticated, or with a
\* mailbox selected
FanProfiles ==
    {[User |-> u, Mailbox |-> m] : u \in {Nil, "u1", "u2"}, m \in {Nil, "INBOX"}}
    \ {[User |-> Nil, Mailbox |-> "INBOX"]}

InitFanout ==
    /\ \E prof \in [FanConns -> FanProfiles] :
          /\ User = [c \in FanConns |-> prof[c].User]
          /\ Mailbox = [c \in FanConns |-> prof[c].Mailbox]
          /\ State = [c \in FanConns |->
                         IF prof[c].Mailbox # Nil THEN SelectedState
                         ELSE IF prof[c].User # Nil THEN AuthenticatedState
                         ELSE NotAuthenticatedState]
    /\ MailboxReadOnly = [c \in FanConns |-> FALSE]
    /\ silent = [c \in FanConns |-> FALSE]
    /\ locker = [c \in FanConns |-> "free"]
    /\ wbuf = [c \in FanConns |-> <<>>]
    /\ sock = [c \in FanConns |-> <<>>]
    /\ pc = [c \in FanConns |-> "read"]
    /\ cmd = [c \in FanConns |-> NoCmd]
    /\ todo = [c \in FanConns |-> <<>>]
    /\ helpers = [c \in FanConns |-> [i \in Hids |-> IdleHelper]]
    /\ pending = [c \in FanConns |-> <<>>]
    /\ sent = [c \in FanConns |-> 0]
    /\ calls = [c \in FanConns |-> <<>>]
    /\ pre = [c \in FanConns |-> NoPre]
    /\ rerr = [c \in FanConns |-> NoErr]
    /\ conns = <<1, 2>>
    /\ crashed = FALSE
    /\ hasUpdates = TRUE
    /\ upc = "select"
    /\ uidx = 0
    /\ upd = NoUpd
    /\ nUpd = 0
    /\ probe = NoProbe
    /\ caps = <<>>
    /\ acc = <<>>

\* a connection with a mailbox selected runs a silent STORE: Store.handle sets
\* conn.silent before the backend call
Peer_StoreCall(c) ==
    /\ Mailbox[c] # Nil
    /\ ~silent[c]
    /\ silent' = Set1(silent, c, TRUE)
    /\ UNCHANGED <<State, User, Mailbox, MailboxReadOnly, locker, wbuf, sock, pc, cmd, todo,
                   helpers, pending, sent, calls, pre, conns, crashed, hasUpdates, updVars,
                   rerr, sideVars>>

\* ... and clears it after the call
Peer_StoreReturn(c) ==
    /\ silent[c]
    /\ silent' = Set1(silent, c, FALSE)
    /\ UNCHANGED <<State, User, Mailbox, MailboxReadOnly, locker, wbuf, sock, pc, cmd, todo,
                   helpers, pending, sent, calls, pre, conns, crashed, hasUpdates, updVars,
                   rerr, sideVars>>

listenUpdates_ReceiveFan == listenUpdates_ReceiveUpTo(MaxFanUpdates)

NextFanout ==
    \/ listenUpdates_ReceiveFan
    \/ listenUpdates_Filter
    \/ listenUpdates_Lock
    \/ listenUpdates_Write
    \/ \E c \in FanConns : Peer_StoreCall(c) \/ Peer_StoreReturn(c)

SpecFanout == InitFanout /\ [][NextFanout]_vars

\* the filter of an update, as the claim states it
C12_Matches(u, c) ==
    /\ u.Username = "" \/ (User[c] # Nil /\ User[c] = u.Username)
    /\ u.Mailbox = "" \/ (Mailbox[c] # Nil /\ Mailbox[c] = u.Mailbox)
    /\ ~(silent[c] /\ u.Kind = "message")

\* C12: the fan-out goes through the connections one by one; when it examines a
\* connection it goes on to write to it if and only if the connection's user
\* and mailbox match the update's filter and the connection is not silent for
\* a FETCH; a socket only ever grows by the bytes of the update being delivered,
\* written by the fan-out to the connection it examined, and the update is the
\* same for every connection of the loop.
C12_FilterThenWrite ==
    [][ /\ (upc = "range" /\ <<upc, uidx>>' # <<upc, uidx>>) =>
              /\ (upc' = "lock") <=> C12_Matches(upd, upd.Conns[uidx])
              /\ upc' = "lock" => uidx' = uidx
        /\ (upc = "lock" /\ upc' # "lock") => (upc' = "write" /\ uidx' = uidx)
        /\ (upc = "write" /\ <<upc, uidx>>' # <<upc, uidx>>) =>
              sock'[upd.Conns[uidx]] = Append(sock[upd.Conns[uidx]], UpdResp(upd))
        /\ \A c \in FanConns :
              sock'[c] # sock[c] => (upc = "write" /\ upd.Conns[uidx] = c)
        /\ (upc # "select" /\ upc' # "select") => upd' = upd
        /\ (upc = "select" /\ upc' # "select") => (uidx' = 1 /\ upd'.Conns = conns)
      ]_vars

\* the fan-out has passed a silent connection without writing the FETCH to it
\* and is about to write it to the next one
C12_Witness ==
    /\ upc = "write"
    /\ uidx = 2
    /\ upd.Kind = "message"
    /\ silent[1]
    /\ sock[1] = <<>>
    /\ C12_Matches(upd, 2)
    /\ ~C12_Matches(upd, 1)

StrictlyAscending(s) == \A i, j \in 1..Len(s) : i < j => s[i] < s[j]

\* the receipt numbers of the updates of channel k on the socket of c, in order
Delivered(c, k) ==
    LET OfKind(r) == IsUpdate(r) /\ r.Type = UpdResp([NoUpd EXCEPT !.Kind = k]).Type
    IN Nums(SelectSeq(sock[c], OfKind))

\* C13: on the socket of every connection the updates of each channel appear in
\* the order in which the fan-out received them.
C13_OrderPerChannel ==
    \A c \in FanConns, k \in UpdKinds : StrictlyAscending(Delivered(c, k))

\* two updates of one channel were delivered to one connection
C13_Witness ==
    \E c \in FanConns, k \in UpdKinds : Delivered(c, k) = <<1, 2>>

----------------------------------------------------------------------------
(* C14: s.conns under the goroutines that use it. listen starts one
   handleConn goroutine per accepted connection, and each begins with
   s.conns = append(s.conns, conn); listenUpdates and Server.Close range
   over s.conns. No lock guards the field, so the load of the slice header,
   the store of the element and pointer, and the store of the length are
   separate steps of each goroutine. conns is the array the pointer word
   designates, acc.len the length word. *)

Tasks == 1..MaxTasks

Readers == {"listenUpdates", "Close"}

InitAccept ==
    /\ InitServer
    /\ probe = NoProbe
    /\ caps = <<>>
    /\ acc = [len |-> 0,
              tasks |-> [t \in Tasks |-> [pc |-> "start", data |-> <<>>, len |-> 0]],
              readers |-> [r \in Readers |-> [pc |-> "idle", data |-> <<>>, len |-> 0]]]

acceptFrame == <<State, User, Mailbox, MailboxReadOnly, silent, locker, wbuf, sock, pc,
                 cmd, todo, helpers, pending, sent, calls, pre, crashed,
                 hasUpdates, upc, uidx, upd, nUpd, rerr, probe, caps>>

\* append reads s.conns
handleConn_AppendLoad(t) ==
    /\ acc.tasks[t].pc = "start"
    /\ acc' = [acc EXCEPT !.tasks[t] = [pc |-> "loaded", data |-> conns, len |-> acc.len]]
    /\ UNCHANGED <<conns, acceptFrame>>

\* append puts conn after the elements it read (in place, or in a larger
\* array it copied them to) and the pointer word of s.conns is stored
handleConn_AppendStore(t) ==
    /\ acc.tasks[t].pc = "loaded"
    /\ conns' = Append(SubSeq(acc.tasks[t].data, 1, acc.tasks[t].len), t)
    /\ acc' = [acc EXCEPT !.tasks[t].pc = "stored"]
    /\ UNCHANGED acceptFrame

\* the length word of s.conns is stored: the connection is registered
handleConn_AppendLen(t) ==
    /\ acc.tasks[t].pc = "stored"
    /\ acc' = [acc EXCEPT !.len = acc.tasks[t].len + 1, !.tasks[t].pc = "registered"]
    /\ UNCHANGED <<conns, acceptFrame>>

\* `range s.conns` in listenUpdates and in Server.Close evaluates s.conns once:
\* the pointer word ...
Range_LoadData(r) ==
    /\ acc.readers[r].pc \in {"idle", "ranging"}
    /\ acc' = [acc EXCEPT !.readers[r] = [pc |-> "data", data |-> conns, len |-> 0]]
    /\ UNCHANGED <<conns, acceptFrame>>

\* ... and the length word
Range_LoadLen(r) ==
    /\ acc.readers[r].pc = "data"
    /\ acc' = [acc EXCEPT !.readers[r].pc = "ranging", !.readers[r].len = acc.len]
    /\ UNCHANGED <<conns, acceptFrame>>

NextAccept ==
    \/ \E t \in Tasks :
          \/ handleConn_AppendLoad(t)
          \/ handleConn_AppendStore(t)
          \/ handleConn_AppendLen(t)
    \/ \E r \in Readers : Range_LoadData(r) \/ Range_LoadLen(r)

SpecAccept == InitAccept /\ [][NextAccept]_vars

\* the connections s.conns holds
ConnsHeld ==
    {conns[i] : i \in {j \in 1..Len(conns) : j <= acc.len}}

\* C14: the connection list holds every connection whose task has registered
\* it, and a goroutine ranging over the list never has a length that goes
\* past the elements of the array it ranges over.
C14_NoLostRegistration ==
    /\ \A t \in Tasks : acc.tasks[t].pc = "registered" => t \in ConnsHeld
    /\ \A r \in Readers :
          acc.readers[r].pc = "ranging" => acc.readers[r].len <= Len(acc.readers[r].data)

----------------------------------------------------------------------------
(* C15, C16, C17: the read loop and what ends it *)

\* C15: no command makes the process panic: the server is never aborted and no
\* connection's goroutine is ever stopped by a panic.
C15_PanicCaught ==
    /\ ~crashed
    /\ \A c \in Conns : pc[c] # "panic"

\* C16: a connection whose read returned a framing error is not terminated.
C16_FramingErrorContinues ==
    \A c \in Conns : rerr[c] = ErrFraming => pc[c] # "closed"

\* C17: once the state of a connection is Logout it stays Logout; from then on
\* the connection only writes what the LOGOUT command answered and goes back to
\* the top of the loop, no command is read or dispatched and no backend call is
\* made; from the top of the loop the task returns, which closes the
\* connection, and a closed connection stays closed.
C17_LogoutTerminal ==
    [][\A c \in Conns :
          /\ State[c] = LogoutState =>
                /\ State'[c] = LogoutState
                /\ pc'[c] \in {pc[c], "write", "flush", "loop", "closed"} \ {"read", "dispatch"}
                /\ cmd'[c] \in {cmd[c], NoCmd}
                /\ calls'[c] \in {calls[c], <<>>}
                /\ (pc[c] = "loop" /\ pc'[c] # "loop") => pc'[c] = "closed"
          /\ pc[c] = "closed" => (pc'[c] = "closed" /\ State'[c] = State[c])
      ]_vars

\* LOGOUT was answered and the task returned
C17_Witness ==
    \E c \in Conns : State[c] = LogoutState /\ pc[c] = "closed" /\ rerr[c] = NoErr

----------------------------------------------------------------------------
(* C20 *)

\* the writer goroutine of a FETCH the handler has returned from: it holds the
\* lock inside WriteRes and waits on a channel that nobody will send on or close
HelperStuck(c, i) ==
    /\ helpers[c][i].pc = "recv"
    /\ ~helpers[c][i].cur
    /\ ~helpers[c][i].closed
    /\ locker[c] = "helper"

\* C20: the tagged status of a FETCH whose ListMessages has returned never
\* waits for a lock that its writer goroutine will hold for ever.
C20_StatusNotBlocked ==
    \A c \in Conns :
        (cmd[c].Name = "FETCH" /\ pc[c] = "write") => ~\E i \in Hids : HelperStuck(c, i)

----------------------------------------------------------------------------
(* C19 *)

\* C19: the fan-out never writes to a connection a FETCH update that the
\* backend published for the flag change of that connection's own silent STORE.
C19_NoEchoToIssuer ==
    [][(upc = "write" /\ <<upc, uidx>>' # <<upc, uidx>>) =>
           ~(upd.Kind = "message" /\ upd.EchoOf = upd.Conns[uidx])]_vars

----------------------------------------------------------------------------
(* C18: BodySectionName.ExtractPartial. A partial is <<offset, length>>, or
   <<>> when the section name has none. *)

Min(a, b) == IF a < b THEN a ELSE b

Bytes == {"a", "b"}

Buffers == SeqsUpTo(Bytes, MaxBuf)

Partials == {<<>>} \cup {<<o, l>> : o \in 0..MaxPartial, l \in 0..MaxPartial}

\* the length taken for the index of the end
ExtractPartial_LengthAsEnd(partial, buf) ==
    IF partial = <<>> THEN buf
    ELSE LET offset == partial[1]
             end == partial[2]
         IN IF offset >= Len(buf) THEN <<>>
            ELSE SubSeq(buf, offset + 1, IF end > Len(buf) THEN Len(buf) ELSE end)

\* buf[offset : min(offset+length, len(buf))], or the empty slice when
\* offset >= len(buf); the whole buffer when there is no partial
ExtractPartial(partial, buf) ==
    IF partial = <<>> THEN buf
    ELSE LET offset == partial[1]
             end == partial[1] + partial[2]
         IN IF offset >= Len(buf) THEN <<>>
            ELSE SubSeq(buf, offset + 1, IF end > Len(buf) THEN Len(buf) ELSE end)

InitPartial ==
    /\ InitServer
    /\ caps = <<>>
    /\ acc = <<>>
    /\ \E b \in Buffers, p \in Partials :
          probe = [Buf |-> b, Partial |-> p, Phase |-> "in", Out |-> <<>>]

Probe_ExtractPartial ==
    /\ probe.Phase = "in"
    /\ probe' = [probe EXCEPT !.Phase = "out",
                              !.Out = ExtractPartial(probe.Partial, probe.Buf)]
    /\ UNCHANGED <<serverVars, caps, acc>>

NextPartial == Probe_ExtractPartial

SpecPartial == InitPartial /\ [][NextPartial]_vars

\* C18: with a partial <o.l> the result is B[min(o,|B|) : min(o+l,|B|)], which
\* is empty when o >= |B| and runs to the end of B when o+l > |B|; with no
\* partial the result is B.
C18_ExtractPartial ==
    probe.Phase = "out" =>
        LET B == probe.Buf
            n == Len(probe.Buf)
        IN IF probe.Partial = <<>> THEN probe.Out = B
           ELSE LET o == probe.Partial[1]
                    l == probe.Partial[2]
                IN /\ probe.Out = SubSeq(B, Min(o, n) + 1, Min(o + l, n))
                   /\ o >= n => probe.Out = <<>>
                   /\ (o < n /\ o + l > n) => probe.Out = SubSeq(B, o + 1, n)
                   /\ Len(probe.Out) <= l

\* a partial that begins inside the buffer and is cut at its end
C18_Witness ==
    /\ probe.Phase = "out"
    /\ probe.Partial # <<>>
    /\ probe.Partial[1] > 0
    /\ probe.Partial[1] < Len(probe.Buf)
    /\ probe.Partial[1] + probe.Partial[2] > Len(probe.Buf)
    /\ probe.Out = SubSeq(probe.Buf, probe.Partial[1] + 1, Len(probe.Buf))
    /\ probe.Out # <<>>

----------------------------------------------------------------------------
(* C21 *)

\* the writer goroutine has left WriteRes, the channel closed, and is at
\* `done <-` while the handler that would receive has returned
HelperAtDoneAlone(c, i) ==
    /\ helpers[c][i].pc = "done"
    /\ helpers[c][i].closed
    /\ ~helpers[c][i].cur

\* C21: no writer goroutine whose channel the backend has closed is left at the
\* send on `done` after its handler has returned.
C21_HelpersTerminate ==
    \A c \in Conns, i \in Hids : ~HelperAtDoneAlone(c, i)

----------------------------------------------------------------------------
(* C22 *)

C22_Ops == {<<"FLAGS">>, <<"+FLAGS">>, <<"-FLAGS">>}
C22_IsSilent(item) == \E op \in C22_Ops : item = Append(op, ".SILENT")
C22_ItemOk(item) == item \in C22_Ops \/ C22_IsSilent(item)

\* C22: a STORE or UID STORE whose item is not FLAGS, +FLAGS or -FLAGS, with
\* .SILENT or without, or whose value is not a list, returns an error with no
\* backend call made and conn.silent as it was. When UpdateMessagesFlags has
\* returned without error the handler goes on to a FETCH of its own if and
\* only if the item is not silent and the backend has no updates; that FETCH
\* is one ListMessages call with the sequence set of the STORE, in the same
\* numbering, and the items FLAGS, with UID added once in the UID variant.
\* Otherwise no further backend call is made.
C22_StoreSynthesis ==
    [][\A c \in Conns :
          LET uid == cmd[c].Name = "UID"
              last == calls'[c][Len(calls'[c])]
              failed == pc'[c] = "write"
                           /\ todo'[c] = <<StatusResp(cmd[c].Tag, "NO", ErrBackend)>>
          IN /\ ( /\ pc[c] = "dispatch" /\ pc'[c] # "dispatch"
                  /\ Reaches(c, {"STORE"})
                  /\ ~C22_ItemOk(cmd[c].Item) \/ ~cmd[c].ValueIsList ) =>
                    /\ calls'[c] = calls[c]
                    /\ silent'[c] = silent[c]
                    /\ pc'[c] = "write"
                    /\ todo'[c][Len(todo'[c])].Type = "NO"
             /\ (pc[c] = "store_call" /\ pc'[c] # "store_call") =>
                    /\ ~failed =>
                          ((pc'[c] = "fetch_list")
                               <=> (~C22_IsSilent(cmd[c].Item) /\ ~hasUpdates))
                    /\ pc'[c] = "fetch_list" =>
                          /\ Len(calls'[c]) = Len(calls[c]) + 1
                          /\ last.Method = "ListMessages"
                          /\ last.SeqSet = cmd[c].SeqSet
                          /\ last.Uid = uid
                          /\ Elems(last.Items) = {"FLAGS"} \cup (IF uid THEN {"UID"} ELSE {})
                          /\ Count(last.Items, "FLAGS") = 1
                          /\ uid => Count(last.Items, "UID") = 1
                    /\ pc'[c] # "fetch_list" => calls'[c] = calls[c]
      ]_vars

\* a UID STORE of FLAGS on the sequence set 1 was answered after a FETCH of
\* its own that emitted a message
C22_Witness ==
    \E c \in Conns :
        /\ Answered(c)
        /\ cmd[c].Name = "UID" /\ cmd[c].Inner = "STORE"
        /\ cmd[c].SeqSet = "1"
        /\ Len(calls[c]) = 2
        /\ calls[c][2].Method = "ListMessages"
        /\ calls[c][2].SeqSet = "1"
        /\ calls[c][2].Items = <<"FLAGS", "UID">>
        /\ sent[c] > 0
        /\ Answer(c).Type = "OK"

----------------------------------------------------------------------------
(* C23 *)

\* the verbs with a UID variant, as the claim lists them
C23_UidVerbs == {"SEARCH", "FETCH", "STORE", "COPY"}

\* C23: a UID command whose inner verb has a registered handler, made and
\* parsed without error, that is not one of SEARCH, FETCH, STORE, COPY is
\* answered with the tagged NO "Command unsupported with UID"; no backend
\* method is called, nothing untagged is written for it, no writer goroutine is
\* started, and the state, mailbox and read-only flag of the connection are as
\* they were before the command.
C23_UidUnsupported ==
    \A c \in Conns :
        ( /\ Handled(c)
          /\ cmd[c].Name = "UID"
          /\ getCommandHandler(cmd[c].Name, cmd[c].ArgsOk) = NoErr
          /\ getCommandHandler(cmd[c].Inner, cmd[c].InnerArgsOk) = NoErr
          /\ cmd[c].Inner \notin C23_UidVerbs ) =>
            /\ Returned(c)
            /\ Answer(c) = StatusResp(cmd[c].Tag, "NO", "Command unsupported with UID")
            /\ calls[c] = <<>>
            /\ DataIn(Out(c)) = <<>>
            /\ \A i \in Hids : ~helpers[c][i].cur
            /\ State[c] = pre[c].State
            /\ Mailbox[c] = pre[c].Mailbox
            /\ MailboxReadOnly[c] = pre[c].ReadOnly
            /\ ~silent[c]

\* UID LOGOUT was answered on a connection with a mailbox selected
C23_Witness ==
    \E c \in Conns :
        /\ Answered(c)
        /\ cmd[c].Name = "UID" /\ cmd[c].Inner = "LOGOUT"
        /\ State[c] = SelectedState
        /\ Answer(c).Info = ErrUidUnsupported

----------------------------------------------------------------------------
(* C24 *)

\* C24: a connection whose state is Authenticated or Selected has a user. The
\* step in which AUTHENTICATE runs the PLAIN check either answers OK, having
\* called the backend Login, and then the state is Authenticated and the user
\* is the one that logged in; or it answers NO and leaves state and user as
\* they were. When the identity is not empty and differs from the username it
\* answers NO without a call of Login.
C24_PlainCheck ==
    /\ [](\A c \in Conns :
             State[c] \in {AuthenticatedState, SelectedState} => User[c] # Nil)
    /\ [][\A c \in Conns :
             ( /\ pc[c] = "dispatch" /\ pc'[c] # "dispatch"
               /\ cmd[c].Name = "AUTHENTICATE"
               /\ State[c] = NotAuthenticatedState ) =>
                 LET status == todo'[c][Len(todo'[c])]
                     logins == Len(SelectSeq(calls'[c], LAMBDA k : k.Method = "Login"))
                                  - Len(SelectSeq(calls[c], LAMBDA k : k.Method = "Login"))
                 IN /\ pc'[c] = "write"
                    /\ status.Type \in {"OK", "NO"}
                    /\ status.Type = "OK" =>
                          /\ State'[c] = AuthenticatedState
                          /\ User'[c] = cmd[c].Username
                          /\ User'[c] # Nil
                          /\ logins = 1
                    /\ status.Type = "NO" =>
                          /\ State'[c] = State[c]
                          /\ User'[c] = User[c]
                    /\ (cmd[c].Identity # "" /\ cmd[c].Identity # cmd[c].Username) =>
                          /\ status.Type = "NO"
                          /\ logins = 0
                    /\ Mailbox'[c] = Mailbox[c]
                    /\ MailboxReadOnly'[c] = MailboxReadOnly[c]
         ]_vars

\* AUTHENTICATE with the identity equal to the username was answered OK
C24_Witness ==
    \E c \in Conns :
        /\ Answered(c)
        /\ cmd[c].Name = "AUTHENTICATE"
        /\ cmd[c].Identity = cmd[c].Username
        /\ cmd[c].Identity # ""
        /\ Answer(c).Type = "OK"
        /\ State[c] = AuthenticatedState
        /\ User[c] = cmd[c].Username

----------------------------------------------------------------------------
(* C25 *)

\* the connection the fan-out has chosen to write to
FanoutTarget == IF upc \in {"lock", "write"} THEN {upd.Conns[uidx]} ELSE {}

\* C25: a connection whose task has returned, and which is therefore closed, is
\* not in the server's connection list and is not the connection the fan-out
\* has chosen to write an update to.
C25_ClosedNotADestination ==
    \A c \in Conns :
        pc[c] = "closed" =>
            /\ c \notin Elems(conns)
            /\ c \notin FanoutTarget

----------------------------------------------------------------------------
(* C26: a FETCH that streams while the backend publishes message updates from
   inside ListMessages, on unbuffered update channels that only the fan-out
   receives from. Connection 1 runs the FETCH; connection 2 has the same
   mailbox selected and waits for a command. *)

StreamConns == {1, 2}

InitStream ==
    /\ State = [c \in StreamConns |-> SelectedState]
    /\ User = [c \in StreamConns |-> "u1"]
    /\ Mailbox = [c \in StreamConns |-> "INBOX"]
    /\ MailboxReadOnly = [c \in StreamConns |-> FALSE]
    /\ silent = [c \in StreamConns |-> FALSE]
    /\ locker = [c \in StreamConns |-> "free"]
    /\ wbuf = [c \in StreamConns |-> <<>>]
    /\ sock = [c \in StreamConns |-> <<>>]
    /\ pc = [c \in StreamConns |-> IF c = 1 THEN "dispatch" ELSE "read"]
    /\ \E l \in FetchItemLists :
          cmd = [c \in StreamConns |->
                    IF c = 1
                    THEN WithSeqSet(Command("a1", "FETCH", TRUE, "", TRUE, l, <<>>, TRUE), "1:*")
                    ELSE NoCmd]
    /\ todo = [c \in StreamConns |-> <<>>]
    /\ helpers = [c \in StreamConns |-> [i \in Hids |-> IdleHelper]]
    /\ pending = [c \in StreamConns |-> <<>>]
    /\ sent = [c \in StreamConns |-> 0]
    /\ calls = [c \in StreamConns |-> <<>>]
    /\ pre = [c \in StreamConns |->
                 IF c = 1
                 THEN [Mailbox |-> "INBOX", ReadOnly |-> FALSE, State |-> SelectedState]
                 ELSE NoPre]
    /\ rerr = [c \in StreamConns |-> NoErr]
    /\ conns \in {<<1, 2>>, <<2, 1>>}
    /\ crashed = FALSE
    /\ hasUpdates = TRUE
    /\ upc = "select"
    /\ uidx = 0
    /\ upd = NoUpd
    /\ nUpd = 0
    /\ probe = NoProbe
    /\ caps = <<>>
    /\ acc = <<>>

\* the backend, inside ListMessages, reaches a send on Updates.Messages
ListMessages_WantPublish(c) ==
    /\ ~crashed
    /\ pc[c] = "fetch_list"
    /\ hasUpdates
    /\ nUpd < MaxFanUpdates
    /\ pc' = Set1(pc, c, "fetch_pub")
    /\ UNCHANGED <<connVars, locker, wbuf, sock, cmd, todo, helpers, pending, sent, calls,
                   pre, conns, crashed, hasUpdates, updVars, rerr, sideVars>>

\* the send completes when listenUpdates is at its select and receives the
\* update; ListMessages goes on
ListMessages_Publish(c) ==
    /\ ~crashed
    /\ pc[c] = "fetch_pub"
    /\ upc = "select"
    /\ nUpd' = nUpd + 1
    /\ \E u \in {"", User[c]} :
          upd' = [Kind |-> "message", Username |-> u, Mailbox |-> Mailbox[c],
                  Conns |-> conns, Seq |-> nUpd + 1, EchoOf |-> 0]
    /\ upc' = "range"
    /\ uidx' = 1
    /\ pc' = Set1(pc, c, "fetch_list")
    /\ UNCHANGED <<connVars, locker, wbuf, sock, cmd, todo, helpers, pending, sent, calls,
                   pre, conns, crashed, hasUpdates, rerr, sideVars>>

NextStream ==
    \/ Fetch_Handle(1)
    \/ ListMessages_Send(1)
    \/ ListMessages_WantPublish(1)
    \/ ListMessages_Publish(1)
    \/ ListMessages_Return(1)
    \/ \E i \in Hids : Helper_Lock(1, i) \/ Helper_Finish(1, i)
    \/ Handler_Done(1)
    \/ WriteRes_Lock(1)
    \/ WriteRes_Flush(1)
    \/ listenUpdates_Filter
    \/ listenUpdates_Lock
    \/ listenUpdates_Write

SpecStream == InitStream /\ [][NextStream]_vars

\* ListMessages waits for the fan-out to receive an update, the fan-out waits
\* for the lock of c, and the writer goroutine of the FETCH holds that lock
\* and waits for ListMessages to send or close
StreamDeadlock(c) ==
    /\ pc[c] = "fetch_pub"
    /\ upc = "lock"
    /\ upd.Conns[uidx] = c
    /\ locker[c] = "helper"
    /\ \E i \in Hids :
          /\ helpers[c][i].cur
          /\ helpers[c][i].pc = "recv"
          /\ ~helpers[c][i].closed

\* C26: the FETCH handler inside ListMessages, its writer goroutine and the
\* fan-out never wait for one another in a cycle.
C26_NoDeadlock ==
    \A c \in StreamConns : ~StreamDeadlock(c)

====
